---------------------------- MODULE Spec2Model ----------------------------
(***************************************************************************)
(* A model of src/src/network.py: the construction of the Deep Q-Network   *)
(* graph (Network.create_network and the builders it calls) and the        *)
(* execution of the operations it hands to the training loop (q_output,    *)
(* train_op, target_update_ops).                                           *)
(*                                                                         *)
(* Construction is one synchronous call, so it is one action whose result  *)
(* is computed by operators that follow the methods statement by           *)
(* statement.  A graph is the record of what has been added to it so far;  *)
(* an exception leaves the graph as it was at the raise.                   *)
(***************************************************************************)
EXTENDS Integers, Sequences, FiniteSets, TLC

(***************************************************************************)
(* Bounds of the model.                                                    *)
(***************************************************************************)
MaxWorkers == 2        \* worker processes, each building its own graph
MaxActions == 2        \* num_actions ranges over 1..MaxActions
MaxDimSteps == 3       \* heights and widths are 42 * (1..MaxDimSteps)
MaxBatch == 4          \* batch sizes fed to q_output range over 1..MaxBatch
MaxEvents == 2         \* training updates plus runs of target_update_ops

(***************************************************************************)
(* Class constants of the two architectures.                               *)
(***************************************************************************)
HIDDEN1_SIZE == 20
HIDDEN2_SIZE == 20
CONV1_FILTERS == 32
CONV1_SIZE == 8
CONV1_STRIDE == 4
CONV2_FILTERS == 64
CONV2_SIZE == 4
CONV2_STRIDE == 2
CONV3_FILTERS == 64
CONV3_SIZE == 3
CONV3_STRIDE == 1
POOL_STRIDE == 2
FULLY_CONNECTED_SIZE == 256

Workers == 1..MaxWorkers

\* num_replicas: the default, or one replica per worker.
ReplicaCounts == {1, MaxWorkers}

\* The names the two lookup tables know, and one name they do not.
NetworkNames == {"simple", "cnn"}
OptimizerNames ==
  {"adadelta", "adagrad", "adam", "ftrl", "sgd", "momentum", "rmsprop"}
UnknownName == "other"

\* Device strings handed to create_network by each worker process.
PsDevice == <<"/job:ps/task", 0>>
WorkerDevice(w) == <<"/job:worker/task", w - 1>>
TaskId(w) == w - 1

\* Graph collection keys.
GLOBAL_VARIABLES == "variables"
LOCAL_VARIABLES == "local_variables"
TRAINABLE_VARIABLES == "trainable_variables"
NoCollections == {"<None>"}   \* collections=None, the default

\* Heights and widths: 42, 84 (the Atari frame), 126, ...
Dims == {42 * k : k \in 1..MaxDimSteps}

\* Input shapes of rank 0 to 3; rank 3 is [height, width, channels].
InputShapes ==
  {<<>>} \cup {<<d>> : d \in {4}} \cup {<<2, 2>>}
    \cup {<<h, w, 4>> : h \in Dims, w \in Dims}

Configs ==
  [network : NetworkNames \cup {UnknownName},
   optimizer : OptimizerNames \cup {UnknownName},
   has_momentum : BOOLEAN,
   has_rmsprop_decay : BOOLEAN,
   sync : BOOLEAN,
   disable_target_replication : BOOLEAN]

-----------------------------------------------------------------------------
(***************************************************************************)
(* Variables of the graph.  tf.get_variable(name, shape, collections=...)  *)
(* under the variable scopes and the device scope in force.                *)
(***************************************************************************)

\* Variable.__init__: collections None means [GLOBAL_VARIABLES]; a trainable
\* variable is also added to TRAINABLE_VARIABLES.
VariableCollections(collections) ==
  (IF collections = NoCollections THEN {GLOBAL_VARIABLES} ELSE collections)
    \cup {TRAINABLE_VARIABLES}

get_variable(scope, layer, role, shape, init, device, collections) ==
  [name |-> scope \o <<layer, role>>,
   shape |-> shape,
   init |-> init,
   device |-> device,
   collections |-> VariableCollections(collections)]

\* The identity of a variable at execution time: its device and its name.
VarId(v) == [device |-> v.device, name |-> v.name]

Failed(err) == [err |-> err, vars |-> <<>>]
Built(vars) == [err |-> "none", vars |-> vars]

\* A faulty SimpleNetwork._init_params: the rank check lets every rank from 1
\* up through.
SimpleNetwork_init_params_lax(input_shape, output_size, scope, device, collections) ==
  IF Len(input_shape) < 1 THEN Failed("shape")
  ELSE
    LET input_size == input_shape[1]
        W(layer, shape) ==
          get_variable(scope, layer, "w", shape, "truncated_normal", device,
                       collections)
        B(layer, size) ==
          get_variable(scope, layer, "b", <<size>>, "zero", device, collections)
    IN Built(<<W("hidden1", <<input_size, HIDDEN1_SIZE>>),
               B("hidden1", HIDDEN1_SIZE),
               W("hidden2", <<HIDDEN1_SIZE, HIDDEN2_SIZE>>),
               B("hidden2", HIDDEN2_SIZE),
               W("output", <<HIDDEN2_SIZE, output_size>>),
               B("output", output_size)>>)

SimpleNetwork_init_params(input_shape, output_size, scope, device, collections) ==
  IF Len(input_shape) # 1 THEN Failed("shape")
  ELSE
    LET input_size == input_shape[1]
        W(layer, shape) ==
          get_variable(scope, layer, "w", shape, "truncated_normal", device,
                       collections)
        B(layer, size) ==
          get_variable(scope, layer, "b", <<size>>, "zero", device, collections)
    IN Built(<<W("hidden1", <<input_size, HIDDEN1_SIZE>>),
               B("hidden1", HIDDEN1_SIZE),
               W("hidden2", <<HIDDEN1_SIZE, HIDDEN2_SIZE>>),
               B("hidden2", HIDDEN2_SIZE),
               W("output", <<HIDDEN2_SIZE, output_size>>),
               B("output", output_size)>>)

ConvNetwork_init_params(input_shape, output_size, scope, device, collections) ==
  IF Len(input_shape) # 3 THEN Failed("shape")
  ELSE
    LET W(layer, shape) ==
          get_variable(scope, layer, "w", shape, "truncated_normal", device,
                       collections)
        B(layer, size) ==
          get_variable(scope, layer, "b", <<size>>, "zero", device, collections)
    IN Built(<<W("conv1", <<CONV1_SIZE, CONV1_SIZE, input_shape[3],
                            CONV1_FILTERS>>),
               B("conv1", CONV1_FILTERS),
               W("conv2", <<CONV2_SIZE, CONV2_SIZE, CONV1_FILTERS,
                            CONV2_FILTERS>>),
               B("conv2", CONV2_FILTERS),
               W("conv3", <<CONV3_SIZE, CONV3_SIZE, CONV2_FILTERS,
                            CONV3_FILTERS>>),
               B("conv3", CONV3_FILTERS),
               W("fcl", <<FULLY_CONNECTED_SIZE, FULLY_CONNECTED_SIZE>>),
               B("fcl", FULLY_CONNECTED_SIZE),
               W("output", <<FULLY_CONNECTED_SIZE, output_size>>),
               B("output", output_size)>>)

\* cls._init_params, dispatched on the class create_network selected.
InitParams(network, input_shape, output_size, scope, device, collections) ==
  IF network = "simple"
  THEN SimpleNetwork_init_params(input_shape, output_size, scope, device,
                                 collections)
  ELSE ConvNetwork_init_params(input_shape, output_size, scope, device,
                               collections)

-----------------------------------------------------------------------------
(***************************************************************************)
(* Layers.  A tensor of the graph is the record of how it is computed; its *)
(* value's shape for a fed batch is computed the way the kernels compute   *)
(* it.                                                                     *)
(***************************************************************************)

\* Output extent of a SAME-padded convolution or pooling: ceil(n / stride).
SameOut(n, stride) == (n + stride - 1) \div stride

RunError == [ok |-> FALSE, shape |-> <<>>]
RunOk(shape) == [ok |-> TRUE, shape |-> shape]

\* tf.matmul(a, w) for a of rank 2: the inner extents must agree.
MatMul(a, w) ==
  IF a.ok /\ Len(a.shape) = 2 /\ a.shape[2] = w.shape[1]
  THEN RunOk(<<a.shape[1], w.shape[2]>>)
  ELSE RunError

\* tf.nn.max_pool(a, ksize=POOL_SIZE, strides=POOL_STRIDE, padding='SAME')
max_pool(a) ==
  IF a.ok
  THEN RunOk(<<a.shape[1], SameOut(a.shape[2], POOL_STRIDE),
               SameOut(a.shape[3], POOL_STRIDE), a.shape[4]>>)
  ELSE RunError

\* tf.nn.conv2d(inputs, filters, strides=[1, stride, stride, 1], 'SAME'),
\* bias and relu (which keep the shape), then max_pool.
conv_pool(inputs, filters, stride) ==
  IF inputs.ok /\ Len(inputs.shape) = 4 /\ inputs.shape[4] = filters.shape[3]
  THEN max_pool(RunOk(<<inputs.shape[1], SameOut(inputs.shape[2], stride),
                        SameOut(inputs.shape[3], stride), filters.shape[4]>>))
  ELSE RunError

RECURSIVE Product(_)
Product(shape) ==
  IF shape = <<>> THEN 1 ELSE Head(shape) * Product(Tail(shape))

\* tf.reshape(a, [-1, columns]): the element count must divide evenly.
ReshapeRows(a, columns) ==
  IF a.ok /\ Product(a.shape) % columns = 0
  THEN RunOk(<<Product(a.shape) \div columns, columns>>)
  ELSE RunError

\* SimpleNetwork._init_layers: the output tensor over the given params, and
\* the weights under the L2 penalty.
SimpleNetwork_init_layers(params) ==
  [network |-> "simple",
   params |-> params,
   reg_loss |-> <<params[1], params[3], params[5]>>]

\* ConvNetwork._init_layers
ConvNetwork_init_layers(params) ==
  [network |-> "cnn",
   params |-> params,
   reg_loss |-> <<params[7], params[9]>>]

InitLayers(network, params) ==
  IF network = "simple" THEN SimpleNetwork_init_layers(params)
  ELSE ConvNetwork_init_layers(params)

\* The value's shape of a SimpleNetwork output fed a batch of the given shape.
SimpleNetwork_output(params, x) ==
  MatMul(MatMul(MatMul(x, params[1]), params[3]), params[5])

\* The value's shape of a ConvNetwork output fed a batch of the given shape.
ConvNetwork_output(params, x) ==
  LET a1 == conv_pool(x, params[1], CONV1_STRIDE)
      a2 == conv_pool(a1, params[3], CONV2_STRIDE)
      a3 == conv_pool(a2, params[5], CONV3_STRIDE)
      a3_flat == ReshapeRows(a3, FULLY_CONNECTED_SIZE)
  IN MatMul(MatMul(a3_flat, params[7]), params[9])

\* session.run(tensor, {x_placeholder: a batch of batch observations})
RunOutput(tensor, input_shape, batch) ==
  LET x == RunOk(<<batch>> \o input_shape)
  IN IF tensor.network = "simple"
     THEN SimpleNetwork_output(tensor.params, x)
     ELSE ConvNetwork_output(tensor.params, x)

-----------------------------------------------------------------------------
(***************************************************************************)
(* Graph assembly.                                                         *)
(***************************************************************************)

NoTensor == [network |-> "none", params |-> <<>>, reg_loss |-> <<>>]
NoTrainOp ==
  [optimizer |-> "none", sync |-> FALSE, replicas_to_aggregate |-> 0,
   replica_id |-> 0, var_list |-> <<>>]
NoNet ==
  [q_output |-> NoTensor, params |-> <<>>, train_op |-> NoTrainOp,
   target_q_output |-> NoTensor, target_params |-> <<>>,
   target_update_ops |-> <<>>, summary_op |-> FALSE]

\* What one call of create_network leaves behind: the exception it raised
\* (or "none"), whether Net(...) was instantiated, what was added to the
\* graph, and the Network it returned.  An unknown dimension is -1.
Outcome(error, instantiated, placeholders, variables, ops, returned, net) ==
  [error |-> error, instantiated |-> instantiated,
   placeholders |-> placeholders, variables |-> variables, ops |-> ops,
   returned |-> returned, net |-> net]

NotCalled == Outcome("none", FALSE, <<>>, <<>>, {}, FALSE, NoNet)

\* A faulty Network._init_optimizer: an unknown name falls back to plain
\* gradient descent instead of raising.
init_optimizer_default(config, params, num_replicas, task_id) ==
  IF ~config.has_momentum \/ ~config.has_rmsprop_decay
  THEN [err |-> "attribute", ops |-> {}, train_op |-> NoTrainOp]
  ELSE [err |-> "none",
        ops |-> {"optimizer", "train_op"}
                  \cup (IF config.sync THEN {"sync_replicas_optimizer"} ELSE {}),
        train_op |->
          [optimizer |-> IF config.optimizer \in OptimizerNames
                         THEN config.optimizer ELSE "sgd",
           sync |-> config.sync,
           replicas_to_aggregate |-> IF config.sync THEN num_replicas ELSE 1,
           replica_id |-> IF config.sync THEN task_id ELSE 0,
           var_list |-> params]]

\* A faulty Network._init_optimizer: the wrapper is built without the
\* replica count and aggregates a single replica.
init_optimizer_single(config, params, num_replicas, task_id) ==
  IF ~config.has_momentum \/ ~config.has_rmsprop_decay
  THEN [err |-> "attribute", ops |-> {}, train_op |-> NoTrainOp]
  ELSE IF config.optimizer \notin OptimizerNames
  THEN [err |-> "unsupported_optimizer", ops |-> {}, train_op |-> NoTrainOp]
  ELSE [err |-> "none",
        ops |-> {"optimizer", "train_op"}
                  \cup (IF config.sync THEN {"sync_replicas_optimizer"} ELSE {}),
        train_op |->
          [optimizer |-> config.optimizer,
           sync |-> config.sync,
           replicas_to_aggregate |-> 1,
           replica_id |-> IF config.sync THEN task_id ELSE 0,
           var_list |-> params]]

\* Network._init_optimizer.  Building the lookup table evaluates
\* config.momentum and config.rmsprop_decay before the lookup, whatever
\* config.optimizer is.
init_optimizer(config, params, num_replicas, task_id) ==
  IF ~config.has_momentum \/ ~config.has_rmsprop_decay
  THEN [err |-> "attribute", ops |-> {}, train_op |-> NoTrainOp]
  ELSE IF config.optimizer \notin OptimizerNames
  THEN [err |-> "unsupported_optimizer", ops |-> {}, train_op |-> NoTrainOp]
  ELSE [err |-> "none",
        ops |-> {"optimizer", "train_op"}
                  \cup (IF config.sync THEN {"sync_replicas_optimizer"} ELSE {}),
        train_op |->
          [optimizer |-> config.optimizer,
           sync |-> config.sync,
           \* a plain optimizer applies every contribution on its own
           replicas_to_aggregate |-> IF config.sync THEN num_replicas ELSE 1,
           replica_id |-> IF config.sync THEN task_id ELSE 0,
           var_list |-> params]]

\* A faulty zip(target_params, params): the last pair is lost.
Zip_short(a, b) ==
  [i \in 1..((IF Len(a) < Len(b) THEN Len(a) ELSE Len(b)) - 1) |-> <<a[i], b[i]>>]

\* zip(target_params, params): stops at the shorter sequence.
Zip(a, b) ==
  [i \in 1..(IF Len(a) < Len(b) THEN Len(a) ELSE Len(b)) |-> <<a[i], b[i]>>]

\* A faulty tf.assign(target_p, p): the arguments are swapped.
assign_reversed(pair) == [ref |-> VarId(pair[2]), value |-> VarId(pair[1])]

\* A faulty tf.assign(target_p, p): the target is assigned to itself.
assign_self(pair) == [ref |-> VarId(pair[1]), value |-> VarId(pair[1])]

\* tf.assign(target_p, p)
assign(pair) == [ref |-> VarId(pair[1]), value |-> VarId(pair[2])]

\* A faulty Network._init_target_network: the replication flag is read the
\* wrong way round.
init_target_network_inverted(config, network, input_shape, output_size, params, ps_device, worker_device) ==
  LET target_param_device ==
        IF config.disable_target_replication THEN worker_device
        ELSE ps_device
      collections ==
        IF config.disable_target_replication THEN {LOCAL_VARIABLES} ELSE {}
      target_params ==
        InitParams(network, input_shape, output_size, <<"target">>,
                   target_param_device, collections)
      pairs == Zip(target_params.vars, params)
  IN [err |-> target_params.err,
      target_params |-> target_params.vars,
      target_q_output |->
        IF target_params.err = "none"
        THEN InitLayers(network, target_params.vars) ELSE NoTensor,
      target_update_ops |->
        IF target_params.err = "none"
        THEN [i \in 1..Len(pairs) |-> assign(pairs[i])] ELSE <<>>]

\* Network._init_target_network
init_target_network(config, network, input_shape, output_size, params, ps_device, worker_device) ==
  LET target_param_device ==
        IF ~config.disable_target_replication THEN worker_device
        ELSE ps_device
      collections ==
        IF ~config.disable_target_replication THEN {LOCAL_VARIABLES} ELSE {}
      target_params ==
        InitParams(network, input_shape, output_size, <<"target">>,
                   target_param_device, collections)
      pairs == Zip(target_params.vars, params)
  IN [err |-> target_params.err,
      target_params |-> target_params.vars,
      target_q_output |->
        IF target_params.err = "none"
        THEN InitLayers(network, target_params.vars) ELSE NoTensor,
      target_update_ops |->
        IF target_params.err = "none"
        THEN [i \in 1..Len(pairs) |-> assign(pairs[i])] ELSE <<>>]

\* Network._init_network on a freshly instantiated Net.
init_network(config, input_shape, num_actions, num_replicas, ps_device, worker_device, task_id) ==
  LET placeholders ==
        <<(<<-1>> \o input_shape), <<-1>>, <<-1, num_actions>>>>
      params ==
        InitParams(config.network, input_shape, num_actions, <<>>, ps_device,
                   NoCollections)
      q_output == InitLayers(config.network, params.vars)
      ops1 == {"q_output", "global_step", "loss"}
      opt == init_optimizer(config, params.vars, num_replicas, task_id)
      ops2 == ops1 \cup opt.ops
      target ==
        init_target_network(config, config.network, input_shape, num_actions,
                            params.vars, ps_device, worker_device)
  IN IF params.err # "none"
     THEN Outcome(params.err, TRUE, placeholders, <<>>, {}, FALSE, NoNet)
     ELSE IF opt.err # "none"
     THEN Outcome(opt.err, TRUE, placeholders, params.vars, ops1, FALSE, NoNet)
     ELSE IF target.err # "none"
     THEN Outcome(target.err, TRUE, placeholders, params.vars, ops2, FALSE,
                  NoNet)
     ELSE Outcome("none", TRUE, placeholders,
                  params.vars \o target.target_params,
                  ops2 \cup {"target_q_output", "target_update_ops",
                             "summary_op"},
                  TRUE,
                  [q_output |-> q_output,
                   params |-> params.vars,
                   train_op |-> opt.train_op,
                   target_q_output |-> target.target_q_output,
                   target_params |-> target.target_params,
                   target_update_ops |-> target.target_update_ops,
                   \* the loss summary is always collected
                   summary_op |-> TRUE])

\* Network.create_network
create_network(config, input_shape, num_actions, num_replicas, ps_device, worker_device, task_id) ==
  IF config.network \notin NetworkNames
  THEN Outcome("unsupported_network", FALSE, <<>>, <<>>, {}, FALSE, NoNet)
  ELSE init_network(config, input_shape, num_actions, num_replicas, ps_device,
                    worker_device, task_id)

-----------------------------------------------------------------------------
(***************************************************************************)
(* State.                                                                  *)
(***************************************************************************)
VARIABLES
  cfg,            \* the config every worker passes to create_network
  in_shape,       \* input_shape
  n_actions,      \* num_actions
  n_replicas,     \* num_replicas
  pc,             \* each worker's place in its loop
  outcome,        \* each worker's call of create_network
  fetched,        \* the last evaluation of q_output and target_q_output
  store,          \* the value of every variable, by device and name
  global_step,    \* the global_step variable
  contributions,  \* executions of train_op that have handed in gradients
  pending,        \* gradients waiting in the synchronous optimizer
  tokens,         \* tokens waiting in the synchronous optimizer's queue
  tpos,           \* per worker, target_update_ops executed in the current run
  tstart,         \* per worker, global_step when the current run began
  refreshes       \* completed runs of target_update_ops, of all workers

vars ==
  <<cfg, in_shape, n_actions, n_replicas, pc, outcome, fetched, store,
    global_step, contributions, pending, tokens, tpos, tstart, refreshes>>

inputs == <<cfg, in_shape, n_actions, n_replicas>>
sync_vars == <<contributions, pending, tokens>>
refresh_vars == <<tpos, tstart, refreshes>>

NoFetch == [worker |-> 0, batch |-> 0, q |-> RunError, target_q |-> RunError]

InitState ==
  /\ pc = [w \in Workers |-> "start"]
  /\ outcome = [w \in Workers |-> NotCalled]
  /\ fetched = NoFetch
  /\ store = <<>>
  /\ global_step = 0
  /\ contributions = 0
  /\ pending = 0
  /\ tokens = 0
  /\ tpos = [w \in Workers |-> 0]
  /\ tstart = [w \in Workers |-> 0]
  /\ refreshes = 0

\* Any config, any input shape of rank 0 to 3.
Init ==
  /\ cfg \in Configs
  /\ in_shape \in InputShapes
  /\ n_actions \in 1..MaxActions
  /\ n_replicas \in ReplicaCounts
  /\ InitState

\* The initial value of a variable: a truncated-normal draw is a value of its
\* own per variable (the online draw 0, the target draw -1, never equal); the
\* constant initializer gives 0.0 to online and target biases alike.
InitialValue(v) ==
  IF v.init = "zero" THEN 0
  ELSE IF v.name[1] = "target" THEN -1 ELSE 0

\* The variables of a graph join the store; one a device already holds (a
\* parameter-server variable another worker created) keeps its value.
Initialize(st, variables) ==
  LET new == {VarId(variables[i]) : i \in 1..Len(variables)} \ DOMAIN st
      Of(id) == CHOOSE i \in 1..Len(variables) : VarId(variables[i]) = id
  IN [id \in DOMAIN st \cup new |->
        IF id \in DOMAIN st THEN st[id] ELSE InitialValue(variables[Of(id)])]

\* A worker calls Network.create_network once, at the start of its loop.
CreateNetwork(w) ==
  /\ pc[w] = "start"
  /\ LET out == create_network(cfg, in_shape, n_actions, n_replicas, PsDevice,
                               WorkerDevice(w), TaskId(w))
     IN /\ outcome' = [outcome EXCEPT ![w] = out]
        /\ pc' = [pc EXCEPT ![w] = IF out.returned THEN "idle" ELSE "failed"]
        /\ store' = IF out.returned THEN Initialize(store, out.variables)
                    ELSE store
  /\ UNCHANGED <<inputs, fetched, global_step, sync_vars, refresh_vars>>

\* session.run([q_output, target_q_output]) on a batch of batch observations.
Forward(w, batch) ==
  /\ pc[w] = "idle"
  /\ fetched' =
       [worker |-> w, batch |-> batch,
        q |-> RunOutput(outcome[w].net.q_output, in_shape, batch),
        target_q |-> RunOutput(outcome[w].net.target_q_output, in_shape, batch)]
  /\ UNCHANGED <<inputs, pc, outcome, store, global_step, sync_vars,
                 refresh_vars>>

\* Spec follows the construction in one process, whichever it is.
Alone(w) == \A v \in Workers \ {w} : pc[v] = "start"

Next ==
  \/ \E w \in Workers : Alone(w) /\ CreateNetwork(w)
  \/ \E w \in Workers, batch \in 1..MaxBatch : Forward(w, batch)

Spec == Init /\ [][Next]_vars

-----------------------------------------------------------------------------
(***************************************************************************)
(* Execution of the operations of the built graphs.  Each worker runs its  *)
(* own loop over its own graph; the variables on the parameter server are  *)
(* shared.                                                                 *)
(***************************************************************************)

\* A faulty minimize(loss, var_list=params): without var_list the update goes
\* to every trainable variable of the graph, the target parameters included.
ApplyGradients_trainable(st, var_list) ==
  [id \in DOMAIN st |-> st[id] + 1]

\* optimizer.apply_gradients over var_list: every variable of the list gets a
\* new value; no other variable is written.
ApplyGradients(st, var_list) ==
  LET ids == {VarId(var_list[i]) : i \in 1..Len(var_list)}
  IN [id \in DOMAIN st |-> IF id \in ids THEN st[id] + 1 ELSE st[id]]

\* Runs of target_update_ops started so far, by all workers.
RefreshesStarted ==
  refreshes + Cardinality({w \in Workers : pc[w] = "refreshing"})

\* Training updates applied and runs of target_update_ops started so far.
Events == global_step + RefreshesStarted

\* session.run(train_op), config.sync not set: minimize() of the plain
\* optimizer computes the gradients and applies them at once.
TrainAsync(w) ==
  /\ pc[w] = "idle"
  /\ ~outcome[w].net.train_op.sync
  /\ Events < MaxEvents
  /\ store' = ApplyGradients(store, outcome[w].net.train_op.var_list)
  /\ global_step' = global_step + 1
  /\ contributions' = contributions + 1
  /\ UNCHANGED <<inputs, pc, outcome, fetched, pending, tokens, refresh_vars>>

\* session.run(train_op), config.sync set: minimize() of the
\* SyncReplicasOptimizer hands the gradients in and waits for a token.
SyncContribute(w) ==
  /\ pc[w] = "idle"
  /\ outcome[w].net.train_op.sync
  /\ contributions < (MaxEvents - RefreshesStarted) * outcome[w].net.train_op.replicas_to_aggregate
  /\ contributions' = contributions + 1
  /\ pending' = pending + 1
  /\ pc' = [pc EXCEPT ![w] = "waiting"]
  /\ UNCHANGED <<inputs, outcome, fetched, store, global_step, tokens,
                 refresh_vars>>

\* The replica whose replica_id is 0 aggregates: once replicas_to_aggregate
\* gradients are in, it applies their mean once, advances global_step and
\* releases as many tokens.
SyncApply(w) ==
  /\ pc[w] \in {"idle", "waiting", "refreshing"}
  /\ outcome[w].net.train_op.sync
  /\ outcome[w].net.train_op.replica_id = 0
  /\ pending >= outcome[w].net.train_op.replicas_to_aggregate
  /\ Events < MaxEvents
  /\ store' = ApplyGradients(store, outcome[w].net.train_op.var_list)
  /\ global_step' = global_step + 1
  /\ pending' = pending - outcome[w].net.train_op.replicas_to_aggregate
  /\ tokens' = tokens + outcome[w].net.train_op.replicas_to_aggregate
  /\ UNCHANGED <<inputs, pc, outcome, fetched, contributions, refresh_vars>>

\* session.run(train_op) returns to a waiting replica with a token.
SyncFinish(w) ==
  /\ pc[w] = "waiting"
  /\ tokens > 0
  /\ tokens' = tokens - 1
  /\ pc' = [pc EXCEPT ![w] = "idle"]
  /\ UNCHANGED <<inputs, outcome, fetched, store, global_step, contributions,
                 pending, refresh_vars>>

\* session.run(target_update_ops): the next tf.assign(target_p, p) of the
\* list copies the online parameter's value of this moment.
Assign(w) ==
  /\ \/ pc[w] = "idle" /\ Events < MaxEvents
     \/ pc[w] = "refreshing"
  /\ LET ops == outcome[w].net.target_update_ops
         op == ops[tpos[w] + 1]
         last == tpos[w] + 1 = Len(ops)
     IN /\ store' = [store EXCEPT ![op.ref] = store[op.value]]
        /\ tpos' = [tpos EXCEPT ![w] = IF last THEN 0 ELSE tpos[w] + 1]
        /\ tstart' = [tstart EXCEPT ![w] =
                        IF last THEN 0
                        ELSE IF tpos[w] = 0 THEN global_step ELSE tstart[w]]
        /\ refreshes' = IF last THEN refreshes + 1 ELSE refreshes
        /\ pc' = [pc EXCEPT ![w] = IF last THEN "idle" ELSE "refreshing"]
  /\ UNCHANGED <<inputs, outcome, fetched, global_step, sync_vars>>

\* The store after every graph of the given outcomes has been initialized.
RECURSIVE InitializeAll(_, _, _)
InitializeAll(st, outs, n) ==
  IF n = 0 THEN st
  ELSE Initialize(InitializeAll(st, outs, n - 1), outs[n].variables)

\* SpecRun starts when every worker has built its graph: the configurations
\* whose construction succeeds, with the input shape of the architecture's
\* usual environment.
InitRun ==
  /\ cfg \in {c \in Configs : /\ c.network \in NetworkNames
                              /\ c.optimizer = "sgd"
                              /\ c.has_momentum /\ c.has_rmsprop_decay}
  /\ in_shape = IF cfg.network = "simple" THEN <<4>> ELSE <<84, 84, 4>>
  /\ n_actions = MaxActions
  /\ n_replicas \in IF cfg.sync THEN ReplicaCounts ELSE {1}
  /\ pc = [w \in Workers |-> "idle"]
  /\ outcome = [w \in Workers |->
                  create_network(cfg, in_shape, n_actions, n_replicas,
                                 PsDevice, WorkerDevice(w), TaskId(w))]
  /\ fetched = NoFetch
  /\ store = InitializeAll(<<>>, outcome, MaxWorkers)
  /\ global_step = 0
  /\ contributions = 0
  /\ pending = 0
  /\ tokens = 0
  /\ tpos = [w \in Workers |-> 0]
  /\ tstart = [w \in Workers |-> 0]
  /\ refreshes = 0

NextRun ==
  \/ \E w \in Workers : TrainAsync(w)
  \/ \E w \in Workers : SyncContribute(w)
  \/ \E w \in Workers : SyncApply(w)
  \/ \E w \in Workers : SyncFinish(w)
  \/ \E w \in Workers : Assign(w)

SpecRun == InitRun /\ [][NextRun]_vars

-----------------------------------------------------------------------------
(***************************************************************************)
(* Properties of the construction (checked under Spec).                    *)
(***************************************************************************)

Called(w) == pc[w] # "start"
Returned(w) == outcome[w].returned

\* The layer a variable belongs to and its role in it ("w" or "b").
Layer(v) == v.name[Len(v.name) - 1]
Role(v) == v.name[Len(v.name)]
IsTarget(v) == Len(v.name) = 3 /\ v.name[1] = "target"

\* The rank the selected architecture's parameter builder requires.
RequiredRank == IF cfg.network = "simple" THEN 1 ELSE 3

\* Nothing of the optimizer step or of the target network is in the graph,
\* and no Network came back.
NothingFromOptimizerOn(o) ==
  /\ o.ops \cap {"optimizer", "sync_replicas_optimizer", "train_op",
                 "target_q_output", "target_update_ops"} = {}
  /\ \A i \in 1..Len(o.variables) : ~IsTarget(o.variables[i])
  /\ ~o.returned
  /\ o.net = NoNet

UnsupportedNetworkFails(o) ==
  /\ o.error = "unsupported_network"
  /\ ~o.instantiated
  /\ o.placeholders = <<>> /\ o.variables = <<>> /\ o.ops = {}
  /\ ~o.returned

\* C1 as stated: an unsupported network name raises the unsupported-network
\* error with nothing instantiated or added to the graph; a supported network
\* with an unsupported optimizer name raises the unsupported-optimizer error
\* before any optimizer, training operation, target parameter or target-update
\* operation exists, and no Network is returned.
C1_AsStated ==
  \A w \in Workers : Called(w) =>
    /\ cfg.network \notin NetworkNames => UnsupportedNetworkFails(outcome[w])
    /\ (cfg.network \in NetworkNames /\ cfg.optimizer \notin OptimizerNames) =>
         /\ outcome[w].error = "unsupported_optimizer"
         /\ NothingFromOptimizerOn(outcome[w])

\* C1 amended: as C1, except that with a supported network and an unsupported
\* optimizer the call fails with the error of the first failing step: the
\* shape-mismatch error when the input rank is wrong, else the attribute error
\* when config lacks momentum or rmsprop_decay, else the unsupported-optimizer
\* error; in each case nothing from the optimizer step on is built and no
\* Network is returned.
C1_UnsupportedSelectorFailsEarly ==
  \A w \in Workers : Called(w) =>
    /\ cfg.network \notin NetworkNames => UnsupportedNetworkFails(outcome[w])
    /\ (cfg.network \in NetworkNames /\ cfg.optimizer \notin OptimizerNames) =>
         /\ outcome[w].error =
              IF Len(in_shape) # RequiredRank THEN "shape"
              ELSE IF ~cfg.has_momentum \/ ~cfg.has_rmsprop_decay
              THEN "attribute"
              ELSE "unsupported_optimizer"
         /\ NothingFromOptimizerOn(outcome[w])

\* C1 witness: a call with a supported network and an unknown optimizer that
\* got as far as the optimizer lookup and failed there, the loss already built.
C1_Witness ==
  \E w \in Workers :
    /\ Called(w)
    /\ cfg.network \in NetworkNames /\ cfg.optimizer \notin OptimizerNames
    /\ outcome[w].error = "unsupported_optimizer"
    /\ "loss" \in outcome[w].ops

\* C2 as stated: for a supported architecture and an input shape of its rank,
\* feeding a batch of B observations gives q_output and target_q_output of
\* shape (B, num_actions).
C2_OutputShapeIsBatchByActions ==
  fetched.worker # 0 =>
    /\ fetched.q = RunOk(<<fetched.batch, n_actions>>)
    /\ fetched.target_q = RunOk(<<fetched.batch, n_actions>>)

\* The number of (weight, bias) pairs of a parameter sequence: its layers.
PairCount(params) == Cardinality({Layer(params[i]) : i \in 1..Len(params)})

\* C3 as stated: target_update_ops has one operation per (weight, bias) pair
\* of the online network: 3 for simple, 5 for cnn.
C3_AsStated ==
  \A w \in Workers : Returned(w) =>
    /\ Len(outcome[w].net.target_update_ops) = PairCount(outcome[w].net.params)
    /\ Len(outcome[w].net.target_update_ops) =
         IF cfg.network = "simple" THEN 3 ELSE 5

\* C3 amended: target_update_ops has one operation per online parameter
\* tensor, two per (weight, bias) pair: 6 for simple, 10 for cnn.
C3_OneUpdatePerParameterTensor ==
  \A w \in Workers : Returned(w) =>
    /\ Len(outcome[w].net.target_update_ops) = Len(outcome[w].net.params)
    /\ Len(outcome[w].net.target_update_ops) =
         2 * PairCount(outcome[w].net.params)
    /\ Len(outcome[w].net.target_update_ops) =
         IF cfg.network = "simple" THEN 6 ELSE 10

\* C3 witness: a convolutional network was returned, with its ten operations.
C3_Witness ==
  \E w \in Workers :
    /\ Returned(w) /\ cfg.network = "cnn"
    /\ Len(outcome[w].net.target_update_ops) = 10
    /\ PairCount(outcome[w].net.params) = 5

\* C4: the online and the target parameter sequences of one call have the
\* same length and, position by position, the same shape, layer and role; the
\* i-th target-update operation assigns the i-th online parameter to the i-th
\* target parameter, and there is one for every position.
C4_TargetMirrorsOnline ==
  \A w \in Workers : Returned(w) =>
    LET net == outcome[w].net IN
    /\ Len(net.params) = Len(net.target_params)
    /\ Len(net.target_update_ops) = Len(net.params)
    /\ \A i \in 1..Len(net.params) :
         /\ net.params[i].shape = net.target_params[i].shape
         /\ Layer(net.params[i]) = Layer(net.target_params[i])
         /\ Role(net.params[i]) = Role(net.target_params[i])
         /\ ~IsTarget(net.params[i]) /\ IsTarget(net.target_params[i])
         /\ i <= Len(net.target_update_ops)
         /\ net.target_update_ops[i].ref = VarId(net.target_params[i])
         /\ net.target_update_ops[i].value = VarId(net.params[i])

\* C4 witness: a convolutional network over a 42 x 126 x 4 input with more
\* than one action was returned, its first filter shaped by the channels and
\* its last weight by the action count, online and target alike.
C4_Witness ==
  \E w \in Workers :
    /\ Returned(w) /\ cfg.network = "cnn" /\ n_actions = 2
    /\ in_shape = <<42, 126, 4>>
    /\ outcome[w].net.target_params[1].shape = <<8, 8, 4, 32>>
    /\ outcome[w].net.target_params[9].shape = <<256, 2>>

\* C8: with network 'simple' and an input shape of rank other than 1, or
\* network 'cnn' and rank other than 3, create_network fails in the online
\* parameter-building step: no Network is returned and no variable, loss,
\* training operation, target parameter or target-update operation is built.
C8_ShapeMismatchFails ==
  \A w \in Workers :
    (Called(w) /\ cfg.network \in NetworkNames /\ Len(in_shape) # RequiredRank)
    =>
      /\ outcome[w].error = "shape"
      /\ outcome[w].instantiated
      /\ outcome[w].variables = <<>>
      /\ outcome[w].ops = {}
      /\ NothingFromOptimizerOn(outcome[w])

\* C8 witness: the simple variant was asked for with the rank-3 shape
\* [84, 84, 4] and failed with the shape error.
C8_Witness ==
  \E w \in Workers :
    /\ Called(w) /\ cfg.network = "simple" /\ in_shape = <<84, 84, 4>>
    /\ outcome[w].error = "shape"

\* C9 as stated: adadelta, adagrad, adam, ftrl and sgd build without
\* momentum and rmsprop_decay in the config; momentum builds without
\* rmsprop_decay, rmsprop without momentum.
C9_CoefficientsReadOnlyWhenUsed ==
  \A w \in Workers :
    (/\ Called(w)
     /\ cfg.network \in NetworkNames /\ Len(in_shape) = RequiredRank
     /\ cfg.optimizer \in OptimizerNames
     /\ cfg.optimizer = "momentum" => cfg.has_momentum
     /\ cfg.optimizer = "rmsprop" => cfg.has_rmsprop_decay)
    => /\ outcome[w].error = "none"
       /\ outcome[w].returned

-----------------------------------------------------------------------------
(***************************************************************************)
(* Properties of the execution (checked under SpecRun).                    *)
(***************************************************************************)

OnlineIds(w) ==
  {VarId(outcome[w].net.params[i]) : i \in 1..Len(outcome[w].net.params)}
TargetIds(w) ==
  {VarId(outcome[w].net.target_params[i]) :
     i \in 1..Len(outcome[w].net.target_params)}

\* The variables whose value this step changes.
Written == {id \in DOMAIN store : store'[id] # store[id]}

\* This step applies a training update.
UpdateApplied == global_step' # global_step

\* This step is worker w executing one of its target-update operations.
AssignStep(w) == tpos'[w] # tpos[w]

\* This step is worker w completing the last operation of target_update_ops.
LastAssignStep(w) ==
  /\ pc[w] = "refreshing"
  /\ tpos[w] + 1 = Len(outcome[w].net.target_update_ops)
  /\ tpos'[w] = 0

\* After this step the target parameters of w equal its online parameters.
TargetMatchesOnlineAfter(w) ==
  \A i \in 1..Len(outcome[w].net.params) :
    store'[VarId(outcome[w].net.target_params[i])] =
      store'[VarId(outcome[w].net.params[i])]

\* C5: train_op is built over exactly the online parameter list; a step that
\* applies a training update writes every online parameter and no target
\* parameter; without config.sync every execution of train_op is such a step;
\* and a target parameter's value changes only in a step that executes a
\* target-update operation.
C5_TrainWritesOnlineOnly ==
  /\ [](\A w \in Workers : Returned(w) =>
          outcome[w].net.train_op.var_list = outcome[w].net.params)
  /\ [][/\ UpdateApplied =>
             \A w \in Workers : Returned(w) =>
               /\ OnlineIds(w) \subseteq Written
               /\ TargetIds(w) \cap Written = {}
        /\ (~cfg.sync /\ contributions' # contributions) => UpdateApplied
        /\ \A w \in Workers : Returned(w) =>
             (TargetIds(w) \cap Written # {} =>
                \E v \in Workers : AssignStep(v))]_vars

\* C5 witness: a training update has been applied after a worker refreshed its
\* target network: the online parameters moved on, the target kept its value.
C5_Witness ==
  \E w \in Workers :
    /\ Returned(w) /\ refreshes = 1 /\ global_step = 1
    /\ \E i \in 1..Len(outcome[w].net.params) :
         /\ store[VarId(outcome[w].net.params[i])] = 1
         /\ store[VarId(outcome[w].net.target_params[i])] = 0
         /\ outcome[w].net.params[i].init = "truncated_normal"

\* C6 as stated: whenever the last operation of target_update_ops completes,
\* every target parameter equals its online parameter, whatever other workers
\* executed between the assignments.
C6_AsStated ==
  [][\A w \in Workers : LastAssignStep(w) => TargetMatchesOnlineAfter(w)]_vars

\* C6 amended: every operation of the list copies the value its online
\* parameter has at that moment, and when the last one completes every target
\* parameter equals its online parameter provided no training update was
\* applied since the first operation of that run.
C6_RefreshMatchesWithoutInterleavedUpdate ==
  [][\A w \in Workers :
       /\ (LastAssignStep(w) /\ global_step = tstart[w]) =>
            TargetMatchesOnlineAfter(w)
       /\ AssignStep(w) =>
            LET k == tpos[w] + 1 IN
            store'[VarId(outcome[w].net.target_params[k])] =
              store[VarId(outcome[w].net.params[k])]]_vars

\* C6 witness: a run of target_update_ops that began after a training update
\* has completed, and the target weights carry the updated online values.
C6_Witness ==
  \E w \in Workers :
    /\ Returned(w) /\ refreshes = 1 /\ global_step = 1 /\ pc[w] = "idle"
    /\ \A i \in 1..Len(outcome[w].net.params) :
         /\ store[VarId(outcome[w].net.params[i])] = 1
         /\ store[VarId(outcome[w].net.target_params[i])] = 1

\* C7: with config.sync the training operation is the SyncReplicasOptimizer's,
\* with replicas_to_aggregate = num_replicas and replica_id = config.task_id;
\* every applied update has consumed num_replicas contributions, so none is
\* applied before num_replicas contributions and num_replicas contributions
\* make one update and one global-step increment.  Without config.sync every
\* execution of train_op has applied its update.  Each update writes every
\* online parameter once.
C7_SyncAggregatesReplicas ==
  /\ \A w \in Workers : Returned(w) =>
       LET t == outcome[w].net.train_op IN
       /\ t.sync = cfg.sync
       /\ ("sync_replicas_optimizer" \in outcome[w].ops) = cfg.sync
       /\ cfg.sync => /\ t.replicas_to_aggregate = n_replicas
                      /\ t.replica_id = TaskId(w)
       /\ \A id \in OnlineIds(w) : store[id] = global_step
  /\ cfg.sync => global_step * n_replicas + pending = contributions
  /\ ~cfg.sync => global_step = contributions /\ pending = 0 /\ tokens = 0

\* C7 witness: synchronous training with one replica per worker; every worker
\* has contributed once and exactly one update has been applied.
C7_Witness ==
  /\ cfg.sync /\ n_replicas = MaxWorkers /\ MaxWorkers > 1
  /\ contributions = n_replicas /\ global_step = 1 /\ pending = 0
  /\ \A w \in Workers : Returned(w) /\ \A id \in OnlineIds(w) : store[id] = 1

\* C10: the placement of the target parameters follows
\* config.disable_target_replication alone.  Not disabled: every target
\* parameter is on the worker's device and in the local-variables collection,
\* and a target-update operation executed by one worker changes no other
\* worker's target parameters.  Disabled: every target parameter is on the
\* parameter-server device, in no locality collection, and all workers share
\* the one copy.  Always: every online parameter is on the parameter-server
\* device, and the target names lie under 'target', apart from every online
\* name.
C10_TargetPlacement ==
  /\ [](\A w \in Workers : Returned(w) =>
          LET net == outcome[w].net IN
          /\ \A i \in 1..Len(net.params) :
               /\ net.params[i].device = PsDevice
               /\ net.params[i].name[1] # "target"
          /\ \A i \in 1..Len(net.target_params) :
               LET t == net.target_params[i] IN
               /\ t.name[1] = "target"
               /\ \A j \in 1..Len(net.params) : t.name # net.params[j].name
               /\ GLOBAL_VARIABLES \notin t.collections
               /\ IF cfg.disable_target_replication
                  THEN t.device = PsDevice /\ LOCAL_VARIABLES \notin t.collections
                  ELSE t.device = WorkerDevice(w)
                       /\ LOCAL_VARIABLES \in t.collections
          /\ cfg.disable_target_replication =>
               \A v \in Workers : Returned(v) => TargetIds(v) = TargetIds(w))
  /\ [][\A w, v \in Workers :
          (/\ ~cfg.disable_target_replication
           /\ AssignStep(w) /\ v # w /\ Returned(v))
          => TargetIds(v) \cap Written = {}]_vars

\* C10 witness: target replication is on, two workers hold a network, one has
\* refreshed its target weights after a training update and the other's are
\* still at their initial draw.
C10_Witness ==
  \E w, v \in Workers :
    /\ w # v /\ Returned(w) /\ Returned(v)
    /\ ~cfg.disable_target_replication
    /\ refreshes = 1 /\ global_step = 1
    /\ store[VarId(outcome[w].net.target_params[1])] = 1
    /\ store[VarId(outcome[v].net.target_params[1])] = -1

=============================================================================
